---- MODULE Spec2Model ----
(***************************************************************************)
(* Model of the vibe25-swarm-api worker (src/vibe25-worker/src/index.ts):  *)
(* a stateless HTTP handler over a shared D1 (SQLite) store.  Every        *)
(* handler is a sequence of store statements separated by `await`; each    *)
(* statement is atomic in the store, and handlers of concurrent requests   *)
(* interleave between statements.  One action of the model is one store    *)
(* statement together with the JavaScript that runs up to the next one.    *)
(*                                                                         *)
(* Money is kept in hundredths of a cent (the code divides by 100 for      *)
(* sub-cent amounts), cost_usd in units of 0.0001 USD.                     *)
(***************************************************************************)
EXTENDS Integers, Sequences, FiniteSets, Bags, TLC

\* ------------------------------------------------------------- bounds
\* jobs submitted, heartbeats accepted, handlers in flight at the same time
MaxJobs == 2
MaxHeartbeats == 3
MaxInFlight == 2
\* jobs submitted where every handler of the job API may interleave
RaceJobs == 1

\* ------------------------------------------------- program constants
\* INSERT INTO budgets ... VALUES (?, 0, 1000); (receiverBudget?.earned_cents || 1000)
ReceiverBaselineCents == 1000
\* GET /get-budget default: earned_cents: 1000
DefaultEarnedCents == 1000
\* Math.round(cost_usd * 10000) / 100 : one cent is 100 model units
UnitsPerCent == 100

\* ------------------------------------------------------------- inputs
Users == {"u1", "u2"}
\* "" stands for a missing / falsy field of the JSON body
UserInputs == Users \cup {""}
LangInputs == {"python", "javascript", "ruby", ""}
StatusInputs == {"ACTIVE", "BUSY", ""}
\* cpu_cores, cpu_load, ram_total, ram_used, disk_free, url as one value; 0 is falsy
StatInputs == {0, 1}
\* cost_usd of the JSON body: absent, a non-number (string / NaN), or a number
\* (v in units of 0.0001 USD)
CostInputs ==
  { [kind |-> "undefined", v |-> 0],
    [kind |-> "string", v |-> 0],
    [kind |-> "number", v |-> 300] }
StdoutInputs == {"", "out"}
\* numeric cost_usd around zero, the 0.01 USD branch and the rounding points
CostValues ==
  {-150, -50, -1, 0, 1, 49, 50, 51, 99, 100, 101, 149, 150, 151, 250, 300}
NumericCosts == {[kind |-> "number", v |-> v] : v \in CostValues}

VARIABLES
  jobs,          \* table jobs, in insertion order; a job's id is its index
  devices,       \* table devices, in insertion order
  ledger,        \* table ledger, in insertion order
  budgets,       \* table budgets, in insertion order
  reqs,          \* bag of the handlers in flight (each its position and locals)
  lastResp,      \* the HTTP response being returned (c.json), NoResp if none
  uniqueUser,    \* schema: is user_id UNIQUE in devices and budgets
  createdAs,     \* history: per budgets row, the INSERT that created it
  handed,        \* history: per job, number of polls that returned it
  lastHb,        \* history: per user, payload of the last completed heartbeat
  hbStarted,     \* number of heartbeats that passed validation (the clock)
  nextDevId      \* next fresh devices.id

vars ==
  << jobs, devices, ledger, budgets, reqs, lastResp, uniqueUser, createdAs,
     handed, lastHb, hbStarted, nextDevId >>

tables == << jobs, devices, ledger, budgets >>

NoResp == [op |-> "none"]
NoHb == [stat |-> 0, status |-> ""]

\* ------------------------------------------------------------ helpers
Range(s) == {s[i] : i \in DOMAIN s}

\* the handlers in flight; the runtime runs each to its next await
InFlight == BagToSet(reqs)
Quiescent == reqs = EmptyBag
CanStart == BagCardinality(reqs) < MaxInFlight
Started(r) == reqs (+) SetToBag({r})
Finished(r) == reqs (-) SetToBag({r})
Stepped(r, r2) == (reqs (-) SetToBag({r})) (+) SetToBag({r2})

\* rows of a table matching WHERE user_id = u
RowsOf(tbl, u) == {i \in DOMAIN tbl : tbl[i].user_id = u}

\* JavaScript  x || d  on numbers
OrDefault(x, d) == IF x = 0 THEN d ELSE x

\* JavaScript truthiness of a string field and of a numeric field
Truthy(x) == x # ""
TruthyNum(x) == x # 0

Init ==
  /\ jobs = << >>
  /\ devices = << >>
  /\ ledger = << >>
  /\ budgets = << >>
  /\ reqs = EmptyBag
  /\ lastResp = NoResp
  /\ uniqueUser \in BOOLEAN
  /\ createdAs = << >>
  /\ handed = [j \in 1..MaxJobs |-> 0]
  /\ lastHb = [u \in Users |-> NoHb]
  /\ hbStarted = 0
  /\ nextDevId = 1


\* ------------------------------------------------- POST /heartbeat
\* the numeric fields compared with undefined instead of tested for truth
HeartbeatFieldsDefined(user_id, stat, status) ==
  Truthy(user_id) /\ Truthy(status)

\* !user_id || !url || !cpu_cores || ... || !status is the rejection
HeartbeatFieldsPresent(user_id, stat, status) ==
  Truthy(user_id) /\ TruthyNum(stat) /\ Truthy(status)

DeviceRow(id, user_id, stat, status, now) ==
  [id |-> id, user_id |-> user_id, stat |-> stat, status |-> status,
   last_seen |-> now]

\* validation fails: 400, nothing read or written
HeartbeatInvalid ==
  \E user_id \in UserInputs, stat \in StatInputs, status \in StatusInputs :
    /\ lastResp = NoResp
    /\ Quiescent
    /\ ~HeartbeatFieldsPresent(user_id, stat, status)
    /\ lastResp' = [op |-> "heartbeat", code |-> 400, user_id |-> user_id,
                    complete |-> FALSE]
    /\ UNCHANGED << jobs, devices, ledger, budgets, reqs, uniqueUser, createdAs,
                    handed, lastHb, hbStarted, nextDevId >>

\* validation passes, now is taken, SELECT id FROM devices WHERE user_id = ?
HeartbeatSelect ==
  \E user_id \in UserInputs, stat \in StatInputs, status \in StatusInputs :
    /\ lastResp = NoResp
    /\ HeartbeatFieldsPresent(user_id, stat, status)
    /\ hbStarted < MaxHeartbeats
    /\ CanStart
    /\ hbStarted' = hbStarted + 1
    /\ reqs' = Started(
                  [pc |-> "hb_write", user_id |-> user_id, stat |-> stat,
                   status |-> status, now |-> hbStarted + 1,
                   existingDevice |-> RowsOf(devices, user_id) # {}])
    /\ lastResp' = NoResp
    /\ UNCHANGED << jobs, devices, ledger, budgets, uniqueUser, createdAs,
                    handed, lastHb, nextDevId >>

\* a fresh id, then UPDATE devices ... WHERE user_id = ?  or  INSERT INTO devices
HeartbeatWrite(r) ==
  LET row == DeviceRow(nextDevId, r.user_id, r.stat, r.status, r.now)
      conflict == ~r.existingDevice /\ uniqueUser /\ RowsOf(devices, r.user_id) # {}
  IN
  /\ r \in InFlight
  /\ r.pc = "hb_write"
  /\ lastResp = NoResp
  /\ nextDevId' = nextDevId + 1
  /\ devices' =
       IF r.existingDevice
       THEN [i \in DOMAIN devices |->
               IF devices[i].user_id = r.user_id THEN row ELSE devices[i]]
       ELSE IF conflict THEN devices ELSE Append(devices, row)
  /\ lastResp' = [op |-> "heartbeat", code |-> IF conflict THEN 500 ELSE 200,
                  user_id |-> r.user_id, complete |-> TRUE]
  /\ lastHb' = [lastHb EXCEPT ![r.user_id] = [stat |-> r.stat, status |-> r.status]]
  /\ reqs' = Finished(r)
  /\ UNCHANGED << jobs, ledger, budgets, uniqueUser, createdAs, handed, hbStarted >>

\* ------------------------------------------- GET /check-for-jobs/:user_id
\* the device_id condition left out of the WHERE clause
QueuedForAny(user_id) ==
  {j \in DOMAIN jobs : jobs[j].status = "QUEUED"}

\* rows matched by WHERE device_id = ? AND status = 'QUEUED'
QueuedFor(user_id) ==
  {j \in DOMAIN jobs : jobs[j].device_id = user_id /\ jobs[j].status = "QUEUED"}

\* the SELECT finds nothing: {job: null}
CheckNoJob ==
  \E user_id \in Users :
    /\ lastResp = NoResp
    /\ QueuedFor(user_id) = {}
    /\ lastResp' = [op |-> "check-for-jobs", code |-> 200, user_id |-> user_id,
                    job |-> 0]
    /\ UNCHANGED << jobs, devices, ledger, budgets, reqs, uniqueUser, createdAs,
                    handed, lastHb, hbStarted, nextDevId >>

\* SELECT ... LIMIT 1 with no ORDER BY: any one of the matching rows
CheckSelect ==
  \E user_id \in Users :
    \E j \in QueuedFor(user_id) :
      /\ lastResp = NoResp
      /\ CanStart
      /\ reqs' = Started(
                    [pc |-> "cj_update", user_id |-> user_id, queuedJob |-> j])
      /\ lastResp' = NoResp
      /\ UNCHANGED << jobs, devices, ledger, budgets, uniqueUser, createdAs,
                      handed, lastHb, hbStarted, nextDevId >>

\* UPDATE jobs SET status = 'RUNNING' WHERE id = ?, then {job: queuedJob}
CheckUpdate(r) ==
  /\ r \in InFlight
  /\ r.pc = "cj_update"
  /\ lastResp = NoResp
  /\ jobs' = [jobs EXCEPT ![r.queuedJob].status = "RUNNING"]
  /\ handed' = [handed EXCEPT ![r.queuedJob] = @ + 1]
  /\ lastResp' = [op |-> "check-for-jobs", code |-> 200, user_id |-> r.user_id,
                  job |-> r.queuedJob]
  /\ reqs' = Finished(r)
  /\ UNCHANGED << devices, ledger, budgets, uniqueUser, createdAs, lastHb,
                  hbStarted, nextDevId >>


\* ------------------------------------------------- POST /submit-job
SubmitFieldsPresent(requester, device_id, lang, cost) ==
  Truthy(requester) /\ Truthy(device_id) /\ Truthy(lang) /\ cost.kind # "undefined"

\* the language check left out: any language given is accepted
ValidLangAny(lang) == lang # ""

\* lang !== "python" && lang !== "javascript" is the rejection
ValidLang(lang) == lang = "python" \/ lang = "javascript"

\* typeof cost_usd !== "number" || isNaN(cost_usd)
InvalidCost(cost) == cost.kind # "number"

\* Math.round(x) for x = n / d, d > 0: floor(x + 1/2)
MathRound(n, d) == (2 * n + d) \div (2 * d)

\* amountCents, in hundredths of a cent, of cost_usd = v * 0.0001
\*   cost_usd < 0.01 ? Math.round(cost_usd * 10000) / 100 : Math.round(cost_usd * 100)
AmountCents(v) ==
  IF v < 100 THEN MathRound(v, 1) ELSE MathRound(v, 100) * UnitsPerCent

NoRow == [found |-> FALSE, v |-> 0]

\* .first() of SELECT <col> FROM budgets WHERE user_id = ?: undefined, or the
\* column of one matching row
FirstBudget(user_id, col) ==
  IF RowsOf(budgets, user_id) = {}
  THEN {NoRow}
  ELSE {[found |-> TRUE, v |-> budgets[i][col]] : i \in RowsOf(budgets, user_id)}

\* a required field is missing, or lang is neither python nor javascript: 400
SubmitInvalid ==
  \E requester \in UserInputs, device_id \in UserInputs, lang \in LangInputs,
     cost \in CostInputs :
    /\ lastResp = NoResp
    /\ Quiescent
    /\ ~SubmitFieldsPresent(requester, device_id, lang, cost) \/ ~ValidLang(lang)
    /\ lastResp' =
         [op |-> "submit-job", code |-> 400,
          error |-> IF ~SubmitFieldsPresent(requester, device_id, lang, cost)
                    THEN "Missing required fields"
                    ELSE "Language must be either 'python' or 'javascript'",
          lang |-> lang,
          complete |-> requester # "" /\ device_id # "" /\ cost.kind # "undefined",
          job_id |-> 0]
    /\ UNCHANGED << jobs, devices, ledger, budgets, reqs, uniqueUser, createdAs,
                    handed, lastHb, hbStarted, nextDevId >>

\* validation passes, a fresh id, INSERT INTO jobs (... 'QUEUED' ...); costs
\* is the set the request's cost_usd is taken from
SubmitInsertJobFrom(costs) ==
  \E requester \in UserInputs, device_id \in UserInputs, lang \in LangInputs,
     cost \in costs :
    /\ lastResp = NoResp
    /\ SubmitFieldsPresent(requester, device_id, lang, cost)
    /\ ValidLang(lang)
    /\ Len(jobs) < MaxJobs
    /\ CanStart
    /\ jobs' = Append(jobs,
                 [id |-> Len(jobs) + 1, requester |-> requester,
                  device_id |-> device_id, lang |-> lang, status |-> "QUEUED",
                  cost_usd |-> cost, stdoutt |-> ""])
    /\ reqs' = Started(
                  [pc |-> "sj_busy", id |-> Len(jobs) + 1, requester |-> requester,
                   device_id |-> device_id, cost_usd |-> cost,
                   amountCents |-> 0, senderBudget |-> NoRow,
                   receiverBudget |-> NoRow])
    /\ lastResp' = NoResp
    /\ UNCHANGED << devices, ledger, budgets, uniqueUser, createdAs, handed,
                    lastHb, hbStarted, nextDevId >>

SubmitInsertJob == SubmitInsertJobFrom(CostInputs)

SubmitResp(r, code, error) ==
  [op |-> "submit-job", code |-> code, error |-> error, lang |-> jobs[r.id].lang,
   complete |-> TRUE, job_id |-> r.id]

\* UPDATE devices SET status = 'BUSY' WHERE user_id = ?, then the cost_usd check
SubmitDeviceBusy(r) ==
  /\ r \in InFlight
  /\ r.pc = "sj_busy"
  /\ lastResp = NoResp
  /\ devices' = [i \in DOMAIN devices |->
                   IF devices[i].user_id = r.device_id
                   THEN [devices[i] EXCEPT !.status = "BUSY"]
                   ELSE devices[i]]
  /\ IF InvalidCost(r.cost_usd)
     THEN /\ lastResp' = SubmitResp(r, 400, "Invalid cost_usd value")
          /\ reqs' = Finished(r)
     ELSE /\ lastResp' = NoResp
          /\ reqs' = Stepped(r,
                        [r EXCEPT !.pc = "sj_ledger",
                                  !.amountCents = AmountCents(r.cost_usd.v)])
  /\ UNCHANGED << jobs, ledger, budgets, uniqueUser, createdAs, handed, lastHb,
                  hbStarted, nextDevId >>

\* the INSERT with requester and device_id bound in the wrong order
SubmitLedgerSwapped(r) ==
  /\ r \in InFlight
  /\ r.pc = "sj_ledger"
  /\ lastResp = NoResp
  /\ ledger' = Append(ledger,
                 [job_id |-> r.id, from_user |-> r.device_id,
                  to_user |-> r.requester, amount_cents |-> r.amountCents])
  /\ reqs' = Stepped(r, [r EXCEPT !.pc = "sj_sel_sender"])
  /\ lastResp' = NoResp
  /\ UNCHANGED << jobs, devices, budgets, uniqueUser, createdAs, handed, lastHb,
                  hbStarted, nextDevId >>

\* INSERT INTO ledger (id, job_id, from_user, to_user, amount_cents, created_at)
SubmitLedger(r) ==
  /\ r \in InFlight
  /\ r.pc = "sj_ledger"
  /\ lastResp = NoResp
  /\ ledger' = Append(ledger,
                 [job_id |-> r.id, from_user |-> r.requester,
                  to_user |-> r.device_id, amount_cents |-> r.amountCents])
  /\ reqs' = Stepped(r, [r EXCEPT !.pc = "sj_sel_sender"])
  /\ lastResp' = NoResp
  /\ UNCHANGED << jobs, devices, budgets, uniqueUser, createdAs, handed, lastHb,
                  hbStarted, nextDevId >>

\* SELECT spent_cents FROM budgets WHERE user_id = requester
SubmitSelectSender(r) ==
  /\ r \in InFlight
  /\ r.pc = "sj_sel_sender"
  /\ lastResp = NoResp
  /\ \E b \in FirstBudget(r.requester, "spent_cents") :
       reqs' = Stepped(r,
                  [r EXCEPT !.senderBudget = b,
                            !.pc = IF b.found THEN "sj_upd_sender"
                                   ELSE "sj_ins_sender"])
  /\ lastResp' = NoResp
  /\ UNCHANGED << jobs, devices, ledger, budgets, uniqueUser, createdAs, handed,
                  lastHb, hbStarted, nextDevId >>

\* INSERT INTO budgets VALUES (requester, 0, 0); a UNIQUE violation throws: 500
SubmitInsertSender(r) ==
  LET conflict == uniqueUser /\ RowsOf(budgets, r.requester) # {}
  IN
  /\ r \in InFlight
  /\ r.pc = "sj_ins_sender"
  /\ lastResp = NoResp
  /\ IF conflict
     THEN /\ lastResp' = SubmitResp(r, 500, "Internal server error")
          /\ reqs' = Finished(r)
          /\ UNCHANGED << budgets, createdAs >>
     ELSE /\ budgets' = Append(budgets,
                          [user_id |-> r.requester, spent_cents |-> 0,
                           earned_cents |-> 0])
          /\ createdAs' = Append(createdAs, "requester")
          /\ reqs' = Stepped(r, [r EXCEPT !.pc = "sj_upd_sender"])
          /\ lastResp' = NoResp
  /\ UNCHANGED << jobs, devices, ledger, uniqueUser, handed, lastHb, hbStarted,
                  nextDevId >>

\* UPDATE budgets SET spent_cents = (senderBudget?.spent_cents || 0) - amountCents
SubmitUpdateSender(r) ==
  LET spent == OrDefault(r.senderBudget.v, 0) - r.amountCents
  IN
  /\ r \in InFlight
  /\ r.pc = "sj_upd_sender"
  /\ lastResp = NoResp
  /\ budgets' = [i \in DOMAIN budgets |->
                   IF budgets[i].user_id = r.requester
                   THEN [budgets[i] EXCEPT !.spent_cents = spent]
                   ELSE budgets[i]]
  /\ reqs' = Stepped(r, [r EXCEPT !.pc = "sj_sel_recv"])
  /\ lastResp' = NoResp
  /\ UNCHANGED << jobs, devices, ledger, uniqueUser, createdAs, handed, lastHb,
                  hbStarted, nextDevId >>

\* SELECT earned_cents FROM budgets WHERE user_id = device_id
SubmitSelectReceiver(r) ==
  /\ r \in InFlight
  /\ r.pc = "sj_sel_recv"
  /\ lastResp = NoResp
  /\ \E b \in FirstBudget(r.device_id, "earned_cents") :
       reqs' = Stepped(r,
                  [r EXCEPT !.receiverBudget = b,
                            !.pc = IF b.found THEN "sj_upd_recv"
                                   ELSE "sj_ins_recv"])
  /\ lastResp' = NoResp
  /\ UNCHANGED << jobs, devices, ledger, budgets, uniqueUser, createdAs, handed,
                  lastHb, hbStarted, nextDevId >>

\* INSERT INTO budgets VALUES (device_id, 0, 1000); a UNIQUE violation throws: 500
SubmitInsertReceiver(r) ==
  LET conflict == uniqueUser /\ RowsOf(budgets, r.device_id) # {}
  IN
  /\ r \in InFlight
  /\ r.pc = "sj_ins_recv"
  /\ lastResp = NoResp
  /\ IF conflict
     THEN /\ lastResp' = SubmitResp(r, 500, "Internal server error")
          /\ reqs' = Finished(r)
          /\ UNCHANGED << budgets, createdAs >>
     ELSE /\ budgets' = Append(budgets,
                          [user_id |-> r.device_id, spent_cents |-> 0,
                           earned_cents |-> ReceiverBaselineCents * UnitsPerCent])
          /\ createdAs' = Append(createdAs, "device")
          /\ reqs' = Stepped(r, [r EXCEPT !.pc = "sj_upd_recv"])
          /\ lastResp' = NoResp
  /\ UNCHANGED << jobs, devices, ledger, uniqueUser, handed, lastHb, hbStarted,
                  nextDevId >>

\* UPDATE budgets SET earned_cents = (receiverBudget?.earned_cents || 1000) + amountCents
\* then {success: true, job_id}
SubmitUpdateReceiver(r) ==
  LET earned == OrDefault(r.receiverBudget.v, ReceiverBaselineCents * UnitsPerCent)
                  + r.amountCents
  IN
  /\ r \in InFlight
  /\ r.pc = "sj_upd_recv"
  /\ lastResp = NoResp
  /\ budgets' = [i \in DOMAIN budgets |->
                   IF budgets[i].user_id = r.device_id
                   THEN [budgets[i] EXCEPT !.earned_cents = earned]
                   ELSE budgets[i]]
  /\ lastResp' = SubmitResp(r, 200, "")
  /\ reqs' = Finished(r)
  /\ UNCHANGED << jobs, devices, ledger, uniqueUser, createdAs, handed, lastHb,
                  hbStarted, nextDevId >>


\* ------------------------------------------------- POST /update-job
\* an id no job row ever carries (ids are 1..MaxJobs)
UnknownJobId == MaxJobs + 1

\* job_id of the JSON body: missing (0), the id of a row, or an unknown id
JobIdInputs == {0} \cup DOMAIN jobs \cup {UnknownJobId}

\* !job_id: 400
UpdateInvalid ==
  /\ lastResp = NoResp
  /\ Quiescent
  /\ lastResp' = [op |-> "update-job", code |-> 400, job_id |-> 0]
  /\ UNCHANGED << jobs, devices, ledger, budgets, reqs, uniqueUser, createdAs,
                  handed, lastHb, hbStarted, nextDevId >>

\* the UPDATE with a WHERE clause that matches no row
UpdateFinishNoMatch ==
  \E job_id \in JobIdInputs, stdout \in StdoutInputs :
    /\ lastResp = NoResp
    /\ TruthyNum(job_id)
    /\ CanStart
    /\ jobs' = jobs
    /\ reqs' = Started([pc |-> "uj_device", job_id |-> job_id])
    /\ lastResp' = NoResp
    /\ UNCHANGED << devices, ledger, budgets, uniqueUser, createdAs, handed,
                    lastHb, hbStarted, nextDevId >>

\* UPDATE jobs SET stdoutt = ?, stderr = ?, status = 'FINISHED' WHERE id = ?
UpdateFinish ==
  \E job_id \in JobIdInputs, stdout \in StdoutInputs :
    /\ lastResp = NoResp
    /\ TruthyNum(job_id)
    /\ CanStart
    /\ jobs' = [j \in DOMAIN jobs |->
                  IF jobs[j].id = job_id
                  THEN [jobs[j] EXCEPT !.stdoutt = stdout, !.status = "FINISHED"]
                  ELSE jobs[j]]
    /\ reqs' = Started([pc |-> "uj_device", job_id |-> job_id])
    /\ lastResp' = NoResp
    /\ UNCHANGED << devices, ledger, budgets, uniqueUser, createdAs, handed,
                    lastHb, hbStarted, nextDevId >>

\* the users selected by (SELECT device_id FROM jobs WHERE id = ?)
DeviceOfJob(job_id) == {jobs[j].device_id : j \in {k \in DOMAIN jobs : jobs[k].id = job_id}}

\* UPDATE devices SET status = 'ACTIVE' WHERE user_id = (SELECT ...), then
\* {success: true}
UpdateDevice(r) ==
  /\ r \in InFlight
  /\ r.pc = "uj_device"
  /\ lastResp = NoResp
  /\ devices' = [i \in DOMAIN devices |->
                   IF devices[i].user_id \in DeviceOfJob(r.job_id)
                   THEN [devices[i] EXCEPT !.status = "ACTIVE"]
                   ELSE devices[i]]
  /\ lastResp' = [op |-> "update-job", code |-> 200, job_id |-> r.job_id]
  /\ reqs' = Finished(r)
  /\ UNCHANGED << jobs, ledger, budgets, uniqueUser, createdAs, handed, lastHb,
                  hbStarted, nextDevId >>

\* ------------------------------------------- GET /get-budget/:user_id
BudgetResp(user_id, spent, earned) ==
  [op |-> "get-budget", code |-> 200, user_id |-> user_id,
   spent_cents |-> spent, earned_cents |-> earned]

\* the default taken for the requester's initial row: nothing earned
BudgetOfZero(user_id, i) ==
  IF i = 0
  THEN BudgetResp(user_id, 0, 0)
  ELSE BudgetResp(user_id, budgets[i].spent_cents, budgets[i].earned_cents)

\* the response for the row the SELECT returned (0 = no row)
BudgetOf(user_id, i) ==
  IF i = 0
  THEN BudgetResp(user_id, 0, DefaultEarnedCents * UnitsPerCent)
  ELSE BudgetResp(user_id, budgets[i].spent_cents, budgets[i].earned_cents)

\* SELECT spent_cents, earned_cents FROM budgets WHERE user_id = ?  .first():
\* the responses the handler can give in the current state
BudgetResults(user_id) ==
  IF RowsOf(budgets, user_id) = {}
  THEN {BudgetOf(user_id, 0)}
  ELSE {BudgetOf(user_id, i) : i \in RowsOf(budgets, user_id)}

GetBudget ==
  \E user_id \in Users :
    /\ lastResp = NoResp
    /\ lastResp' \in BudgetResults(user_id)
    /\ UNCHANGED << jobs, devices, ledger, budgets, reqs, uniqueUser, createdAs,
                    handed, lastHb, hbStarted, nextDevId >>

\* ------------------------------------------------------ the response
\* the runtime sends the handler's return value to the client
ResponseSent ==
  /\ lastResp # NoResp
  /\ lastResp' = NoResp
  /\ UNCHANGED << jobs, devices, ledger, budgets, reqs, uniqueUser, createdAs,
                  handed, lastHb, hbStarted, nextDevId >>

\* ------------------------------------------------------ specification
\* the device registry: heartbeats
NextDevices ==
  \/ HeartbeatInvalid
  \/ HeartbeatSelect
  \/ \E r \in InFlight : HeartbeatWrite(r)
  \/ ResponseSent

\* the steps that continue or complete a submission
SubmitSteps ==
  \/ SubmitInvalid
  \/ \E r \in InFlight : SubmitDeviceBusy(r)
  \/ \E r \in InFlight : SubmitLedger(r)
  \/ \E r \in InFlight : SubmitSelectSender(r)
  \/ \E r \in InFlight : SubmitInsertSender(r)
  \/ \E r \in InFlight : SubmitUpdateSender(r)
  \/ \E r \in InFlight : SubmitSelectReceiver(r)
  \/ \E r \in InFlight : SubmitInsertReceiver(r)
  \/ \E r \in InFlight : SubmitUpdateReceiver(r)

\* the steps of the device side of the job queue, but for a handler's start
QueueSteps ==
  \/ CheckNoJob
  \/ \E r \in InFlight : CheckUpdate(r)
  \/ UpdateInvalid
  \/ \E r \in InFlight : UpdateDevice(r)

\* every request of the job API, handlers interleaving, RaceJobs submissions
NextRace ==
  \/ Len(jobs) < RaceJobs /\ SubmitInsertJob
  \/ CheckSelect
  \/ UpdateFinish
  \/ SubmitSteps
  \/ QueueSteps
  \/ GetBudget
  \/ ResponseSent

\* every request of the job API, a handler starting only when none is in
\* flight, MaxJobs submissions
NextSerial ==
  \/ Quiescent /\ SubmitInsertJob
  \/ Quiescent /\ CheckSelect
  \/ Quiescent /\ UpdateFinish
  \/ SubmitSteps
  \/ QueueSteps
  \/ GetBudget
  \/ ResponseSent

\* submissions and budget queries, handlers interleaving, MaxJobs submissions
NextSubmits ==
  \/ SubmitInsertJob
  \/ SubmitSteps
  \/ GetBudget
  \/ ResponseSent

\* submissions one at a time (none starts while a handler is in flight) and
\* budget queries, MaxJobs submissions
NextSerialSubmits ==
  \/ Quiescent /\ SubmitInsertJob
  \/ SubmitSteps
  \/ GetBudget
  \/ ResponseSent

\* one submission with a numeric cost_usd from NumericCosts, then budget
\* queries
NextCost ==
  \/ Len(jobs) < RaceJobs /\ SubmitInsertJobFrom(NumericCosts)
  \/ SubmitSteps
  \/ GetBudget
  \/ ResponseSent

\* the device of job j reports a job it was handed and that is not FINISHED:
\* POST /update-job with that job_id
Report(j) ==
  /\ j \in DOMAIN jobs
  /\ handed[j] > 0
  /\ jobs[j].status # "FINISHED"
  /\ UpdateFinish
  /\ \E r \in BagToSet(reqs') :
       /\ r.pc = "uj_device"
       /\ r.job_id = jobs[j].id
       /\ CopiesIn(r, reqs') > CopiesIn(r, reqs)

\* RaceJobs submissions, devices that poll and that report the jobs they were
\* handed, handlers interleaving.  Requests that change nothing in the store
\* (rejected bodies, polls that find no job) are left out, so every behaviour
\* comes to an end.
NextLive ==
  \/ Len(jobs) < RaceJobs /\ SubmitInsertJob
  \/ \E r \in InFlight : SubmitDeviceBusy(r)
  \/ \E r \in InFlight : SubmitLedger(r)
  \/ \E r \in InFlight : SubmitSelectSender(r)
  \/ \E r \in InFlight : SubmitInsertSender(r)
  \/ \E r \in InFlight : SubmitUpdateSender(r)
  \/ \E r \in InFlight : SubmitSelectReceiver(r)
  \/ \E r \in InFlight : SubmitInsertReceiver(r)
  \/ \E r \in InFlight : SubmitUpdateReceiver(r)
  \/ CheckSelect
  \/ \E r \in InFlight : CheckUpdate(r)
  \/ \E j \in 1..MaxJobs : Report(j)
  \/ \E r \in InFlight : UpdateDevice(r)
  \/ ResponseSent

\* the runtime runs every handler to its end, a device keeps polling while a
\* job is QUEUED for it, and it reports every job it was handed
Fairness ==
  /\ WF_vars(ResponseSent)
  /\ WF_vars(\E r \in InFlight : SubmitDeviceBusy(r))
  /\ WF_vars(\E r \in InFlight : SubmitLedger(r))
  /\ WF_vars(\E r \in InFlight : SubmitSelectSender(r))
  /\ WF_vars(\E r \in InFlight : SubmitInsertSender(r))
  /\ WF_vars(\E r \in InFlight : SubmitUpdateSender(r))
  /\ WF_vars(\E r \in InFlight : SubmitSelectReceiver(r))
  /\ WF_vars(\E r \in InFlight : SubmitInsertReceiver(r))
  /\ WF_vars(\E r \in InFlight : SubmitUpdateReceiver(r))
  /\ WF_vars(CheckSelect)
  /\ WF_vars(\E r \in InFlight : CheckUpdate(r))
  /\ \A j \in 1..MaxJobs : WF_vars(Report(j))
  /\ WF_vars(\E r \in InFlight : UpdateDevice(r))

\* the store once every user's device has sent one accepted heartbeat
\* (status ACTIVE) and nothing else has happened
InitRegistered ==
  /\ jobs = << >>
  /\ devices = << DeviceRow(1, "u1", 1, "ACTIVE", 1), DeviceRow(2, "u2", 1, "ACTIVE", 2) >>
  /\ ledger = << >>
  /\ budgets = << >>
  /\ reqs = EmptyBag
  /\ lastResp = NoResp
  /\ uniqueUser \in BOOLEAN
  /\ createdAs = << >>
  /\ handed = [j \in 1..MaxJobs |-> 0]
  /\ lastHb = [u \in Users |-> [stat |-> 1, status |-> "ACTIVE"]]
  /\ hbStarted = 2
  /\ nextDevId = 3

\* the job API with the devices registered and no further heartbeat
Spec == InitRegistered /\ [][NextRace]_vars
SpecSerial == InitRegistered /\ [][NextSerial]_vars
SpecSubmits == InitRegistered /\ [][NextSubmits]_vars
SpecSerialSubmits == InitRegistered /\ [][NextSerialSubmits]_vars
SpecCost == InitRegistered /\ [][NextCost]_vars
SpecLive == InitRegistered /\ [][NextLive]_vars /\ Fairness

\* heartbeats from the empty store
SpecDevices == Init /\ [][NextDevices]_vars

\* ====================================================== the claims
JobIds == {jobs[j].id : j \in DOMAIN jobs}

\* the sum of amount_cents over the first n ledger entries whose user column
\* col is u
RECURSIVE LedgerSum(_, _, _)
LedgerSum(n, col, u) ==
  IF n = 0 THEN 0
  ELSE LedgerSum(n - 1, col, u)
         + (IF ledger[n][col] = u THEN ledger[n].amount_cents ELSE 0)

\* the step sends a response of handler op
Responds(op) == lastResp = NoResp /\ lastResp'.op = op

\* ---- C1: no double-claim: over any interleaving of concurrent polls, at
\* most one CheckForJobs call ever returns a given job.
C1_NoDoubleClaim == \A j \in DOMAIN handed : handed[j] <= 1

\* ---- C2: once every submission has completed, each budget row's spent_cents
\* is minus the sum of the user's outgoing ledger entries, and its earned_cents
\* is the baseline the row was created with (0 as requester, 1000 cents as
\* device) plus the sum of the user's incoming ledger entries.
C2_BudgetMatchesLedger ==
  Quiescent =>
    \A i \in DOMAIN budgets :
      /\ budgets[i].spent_cents = 0 - LedgerSum(Len(ledger), "from_user", budgets[i].user_id)
      /\ budgets[i].earned_cents =
           (IF createdAs[i] = "device" THEN 1000 * 100 ELSE 0)
             + LedgerSum(Len(ledger), "to_user", budgets[i].user_id)

\* ---- C3: in every step, a job's status changes only QUEUED -> RUNNING or
\* RUNNING -> FINISHED.
C3_ForwardOnly ==
  [][\A j \in DOMAIN jobs :
       jobs'[j].status # jobs[j].status =>
         << jobs[j].status, jobs'[j].status >>
           \in {<< "QUEUED", "RUNNING" >>, << "RUNNING", "FINISHED" >>}]_vars

\* ---- C4: SubmitJob is all-or-nothing: when a submission answers anything
\* but success, nothing it wrote remains: no job row with its id and no ledger
\* entry for it.
C4_AllOrNothing ==
  (lastResp.op = "submit-job" /\ lastResp.code # 200) =>
    /\ lastResp.job_id \notin JobIds
    /\ \A e \in DOMAIN ledger : ledger[e].job_id # lastResp.job_id

\* ---- C5: UpdateJob with a job_id that matches no job row changes no job
\* row and no device row, and answers NotFound (404), not success.
UnknownJob(job_id) == job_id # 0 /\ job_id \notin JobIds

C5_UnknownJobNotFound ==
  [][/\ (\E r \in BagToSet(reqs') :
           /\ r.pc = "uj_device"
           /\ UnknownJob(r.job_id)
           /\ CopiesIn(r, reqs') > CopiesIn(r, reqs))
         => (jobs' = jobs /\ devices' = devices)
     /\ (Responds("update-job") /\ UnknownJob(lastResp'.job_id))
         => (jobs' = jobs /\ devices' = devices /\ lastResp'.code = 404)]_vars

\* ---- C6: at most one device row per user_id in every state, and once the
\* heartbeats for a user have completed the row carries the values of the
\* latest one.
C6_OneRowLatestValues ==
  \A u \in Users :
    /\ Cardinality(RowsOf(devices, u)) <= 1
    /\ (Quiescent /\ lastHb[u] # NoHb) =>
         \E i \in RowsOf(devices, u) :
           /\ RowsOf(devices, u) = {i}
           /\ devices[i].stat = lastHb[u].stat
           /\ devices[i].status = lastHb[u].status

\* ---- C7: a submission whose other fields are present and whose lang is
\* neither "python" nor "javascript" is answered 400 with the language
\* message and changes no table; no job row ever carries such a lang.
C7_BadLangRejected ==
  [][/\ \A j \in DOMAIN jobs' : jobs'[j].lang \in {"python", "javascript"}
     /\ (/\ Responds("submit-job")
         /\ lastResp'.complete
         /\ lastResp'.lang \notin {"python", "javascript", ""})
         => /\ lastResp'.code = 400
            /\ lastResp'.error = "Language must be either 'python' or 'javascript'"
            /\ tables' = tables]_vars

\* a submission with lang "ruby" was just rejected while a job row exists
C7_Witness ==
  /\ lastResp.op = "submit-job"
  /\ lastResp.complete
  /\ lastResp.lang = "ruby"
  /\ lastResp.code = 400
  /\ Len(jobs) > 0

\* ---- C8: GetBudget answers {spent_cents: 0, earned_cents: 1000} for a user
\* with no budget row and the stored pair of a row of that user otherwise,
\* and leaves budgets, ledger, jobs and devices unchanged.
C8_GetBudgetReadOnly ==
  [][Responds("get-budget") =>
       /\ tables' = tables
       /\ lastResp'.code = 200
       /\ LET rows == RowsOf(budgets, lastResp'.user_id) IN
            IF rows = {}
            THEN lastResp'.spent_cents = 0 /\ lastResp'.earned_cents = 1000 * 100
            ELSE \E i \in rows :
                   /\ lastResp'.spent_cents = budgets[i].spent_cents
                   /\ lastResp'.earned_cents = budgets[i].earned_cents]_vars

\* both answers were given: the default for a user without a row while
\* another user has one, and a stored pair that is not the default
C8_WitnessDefault ==
  /\ lastResp.op = "get-budget"
  /\ RowsOf(budgets, lastResp.user_id) = {}
  /\ budgets # << >>

C8_Witness ==
  /\ lastResp.op = "get-budget"
  /\ RowsOf(budgets, lastResp.user_id) # {}
  /\ lastResp.spent_cents < 0

\* ---- C9: when no request is in flight, every requester and every
\* device_id of a job row has a budget row.
C9_BudgetRowExists ==
  Quiescent =>
    \A j \in DOMAIN jobs :
      /\ RowsOf(budgets, jobs[j].requester) # {}
      /\ RowsOf(budgets, jobs[j].device_id) # {}

\* ---- C10: with no heartbeats, when no request is in flight and a device
\* has jobs and all of them are FINISHED, the device is ACTIVE.
C10_NoOrphanedBusy ==
  Quiescent =>
    \A u \in Users :
      LET mine == {j \in DOMAIN jobs : jobs[j].device_id = u} IN
        (mine # {} /\ \A j \in mine : jobs[j].status = "FINISHED")
          => \A i \in RowsOf(devices, u) : devices[i].status = "ACTIVE"

\* ---- C11: a successful submission that ran without interleaving leaves the
\* requester's spent_cents at the value stored before the call (0 when the row
\* was missing) minus amount_cents, and the device user's earned_cents at the
\* value stored before the call (the default when the row was missing) plus
\* amount_cents, also when the stored earned_cents was 0.  With requester =
\* device_id and no row before the call either default is accepted.
\* In a run without interleaving the handler's two SELECTs return the values
\* stored before the call.
SpentBefore(r) == IF r.senderBudget.found THEN r.senderBudget.v ELSE 0

EarnedBefore(r) ==
  IF r.device_id # r.requester
  THEN IF r.receiverBudget.found THEN {r.receiverBudget.v} ELSE {1000 * 100}
  ELSE IF r.senderBudget.found THEN {r.receiverBudget.v} ELSE {0, 1000 * 100}

C11_ExactDeltas ==
  [][\A r \in InFlight :
       (/\ r.pc = "sj_upd_recv"
        /\ Responds("submit-job")
        /\ lastResp'.code = 200
        /\ lastResp'.job_id = r.id)
         => /\ RowsOf(budgets', r.requester) # {}
            /\ RowsOf(budgets', r.device_id) # {}
            /\ \A i \in RowsOf(budgets', r.requester) :
                 budgets'[i].spent_cents = SpentBefore(r) - r.amountCents
            /\ \A i \in RowsOf(budgets', r.device_id) :
                 budgets'[i].earned_cents - r.amountCents \in EarnedBefore(r)]_vars

\* ---- C12: a job's status becomes RUNNING only in the step of a
\* check-for-jobs call for the job's device_id that returns this job; a job
\* returned to a poll of user u has device_id = u; and the job a poll selects
\* is QUEUED and assigned to the polling user when it is selected.
C12_ClaimedByAssignedDevice ==
  [][/\ \A j \in DOMAIN jobs :
          (jobs[j].status # "RUNNING" /\ jobs'[j].status = "RUNNING")
            => /\ Responds("check-for-jobs")
               /\ lastResp'.job = j
               /\ lastResp'.user_id = jobs[j].device_id
     /\ (Responds("check-for-jobs") /\ lastResp'.job # 0)
          => jobs'[lastResp'.job].device_id = lastResp'.user_id
     /\ \A r \in BagToSet(reqs') :
          (r.pc = "cj_update" /\ CopiesIn(r, reqs') > CopiesIn(r, reqs))
            => /\ jobs[r.queuedJob].status = "QUEUED"
               /\ jobs[r.queuedJob].device_id = r.user_id]_vars

\* a poll has just been handed a job, which is RUNNING
C12_Witness ==
  /\ lastResp.op = "check-for-jobs"
  /\ lastResp.job # 0
  /\ jobs[lastResp.job].status = "RUNNING"
  /\ jobs[lastResp.job].device_id = lastResp.user_id

\* ---- C13: the ledger is append-only with one entry per job: every step
\* keeps the existing entries as they are and appends at most one, no job_id
\* is in two entries, and when a submission answers success the ledger holds
\* exactly one entry for its job, from the requester to the device, with the
\* converted amount.
EntriesOf(job_id) == {e \in DOMAIN ledger : ledger[e].job_id = job_id}

Oldest(S) == CHOOSE j \in S : \A k \in S : j <= k

C14_OldestFirst ==
  [][/\ \A r \in BagToSet(reqs') :
          (r.pc = "cj_update" /\ CopiesIn(r, reqs') > CopiesIn(r, reqs))
            => r.queuedJob = Oldest(QueuedFor(r.user_id))
     /\ (Responds("check-for-jobs") /\ lastResp'.job = 0)
          => QueuedFor(lastResp'.user_id) = {}]_vars

\* ---- C15: with cost_usd = c * 0.0001 USD, amount_cents is round(c / 100)
\* cents for c >= 100 and c / 100 cents for c < 100; the ledger entry of a
\* successful submission carries this amount, the requester's spent_cents and
\* the device's earned_cents moved by it, and it is a whole number of cents.
\* (Amounts are in hundredths of a cent.)
ClaimedAmount(c) == IF c >= 100 THEN ((c + 50) \div 100) * 100 ELSE c

C15_AmountConversion ==
  [][\A r \in InFlight :
       (/\ r.pc = "sj_upd_recv"
        /\ Responds("submit-job")
        /\ lastResp'.code = 200
        /\ lastResp'.job_id = r.id)
         => LET a == ClaimedAmount(r.cost_usd.v) IN
            /\ \A e \in DOMAIN ledger' :
                 ledger'[e].job_id = r.id => ledger'[e].amount_cents = a
            /\ \A i \in RowsOf(budgets', r.requester) :
                 budgets'[i].spent_cents = SpentBefore(r) - a
            /\ \A i \in RowsOf(budgets', r.device_id) :
                 budgets'[i].earned_cents - a \in EarnedBefore(r)
            /\ a % 100 = 0]_vars

\* ---- C16: a heartbeat with a falsy required field (missing, empty or
\* numeric zero) is answered 400 and leaves the devices table as it was; no
\* device row ever carries a falsy user_id, stat or status.
C16_FalsyHeartbeatRejected ==
  [][/\ \A i \in DOMAIN devices' :
          /\ devices'[i].user_id # ""
          /\ devices'[i].stat # 0
          /\ devices'[i].status # ""
     /\ (Responds("heartbeat") /\ ~lastResp'.complete)
          => (lastResp'.code = 400 /\ devices' = devices)
     /\ (Responds("heartbeat") /\ lastResp'.code = 400)
          => devices' = devices]_vars

\* a heartbeat for a user with a device row has just been rejected
C16_Witness ==
  /\ lastResp.op = "heartbeat"
  /\ lastResp.code = 400
  /\ ~lastResp.complete
  /\ RowsOf(devices, lastResp.user_id) # {}

\* ---- C17: no free compute: in every state a job that is RUNNING or
\* FINISHED has a ledger entry carrying its id.
C17_NoFreeCompute ==
  \A j \in DOMAIN jobs :
    jobs[j].status \in {"RUNNING", "FINISHED"} => EntriesOf(jobs[j].id) # {}

\* ---- C18: a successful submission with requester # device_id, run without
\* interleaving, leaves the earned_cents that get-budget answers for the
\* requester as it was before the call: no step of the call changes the
\* earned_cents of a row the requester has, and when the requester had no row
\* before the call, get-budget answers the no-row default after it as well.
C18_RequesterEarnedUnchanged ==
  [][\A r \in InFlight :
       r.requester # r.device_id =>
         /\ \A i \in RowsOf(budgets, r.requester) :
              budgets'[i].earned_cents = budgets[i].earned_cents
         /\ (/\ r.pc = "sj_upd_recv"
             /\ Responds("submit-job")
             /\ lastResp'.code = 200
             /\ lastResp'.job_id = r.id
             /\ ~r.senderBudget.found)
              => \A b \in BudgetResults(r.requester)' :
                   b.earned_cents = BudgetOf(r.requester, 0).earned_cents]_vars

\* ---- C19: with no heartbeats, when no request is in flight a device whose
\* status is ACTIVE has no QUEUED and no RUNNING job assigned to it.
C19_ActiveDeviceIsIdle ==
  Quiescent =>
    \A i \in DOMAIN devices :
      devices[i].status = "ACTIVE" =>
        \A j \in DOMAIN jobs :
          jobs[j].device_id = devices[i].user_id
            => jobs[j].status \notin {"QUEUED", "RUNNING"}

\* ---- C20: with finitely many submissions, devices that keep polling and
\* that report every job they were handed, a job whose submission answered
\* success is eventually FINISHED and from some point on stays FINISHED; and a
\* job is RUNNING in the store when a poll is handed it.
Done(j) == j \in DOMAIN jobs /\ jobs[j].status = "FINISHED"

SubmitSucceeded(j) ==
  lastResp.op = "submit-job" /\ lastResp.code = 200 /\ lastResp.job_id = j

C20_EventuallyFinished ==
  /\ \A j \in 1..MaxJobs : SubmitSucceeded(j) ~> []Done(j)
  /\ [][(Responds("check-for-jobs") /\ lastResp'.job # 0)
          => jobs'[lastResp'.job].status = "RUNNING"]_vars

\* a job that was charged for, handed to its device and reported is FINISHED
C20_Witness ==
  \E j \in DOMAIN jobs :
    /\ Done(j)
    /\ handed[j] > 0
    /\ EntriesOf(jobs[j].id) # {}
    /\ \E i \in RowsOf(budgets, jobs[j].device_id) :
         budgets[i].earned_cents > 1000 * 100

============================================================================
